---- MODULE Spec2Model ----
(***************************************************************************)
(* shopify-shipping-csv: Shopify order export -> Clickpost shipping label  *)
(* CSV files (src/main.go).                                                *)
(*                                                                         *)
(* A Go string is a sequence of bytes; the literals of the source are      *)
(* their UTF-8 encodings.  Lengths are counted by utf8.RuneCountInString,  *)
(* which is modelled on the bytes.                                         *)
(***************************************************************************)
EXTENDS Integers, Sequences, FiniteSets, TLC

VARIABLES
    pc,             \* position of the running operation
    input,          \* rows of shopify-orders.csv (main)
    orders,         \* main: orders returned by ImportShopifyOrders
    chunks,         \* result of ChunkShopifyOrders
    idx,            \* main: index i of the range loop over the chunks
    shippingLabels, \* ExportClickpostShippingLabels: labels that validated
    logged,         \* lines written by log.Printf: o.Name and err
    files,          \* output files created so far: name -> contents
    openFiles,      \* file handles opened and not yet closed
    failure,        \* the error main panicked with, "" while there is none
    items,          \* argument of ChunkShopifyOrders
    chunkSize,      \* argument of ChunkShopifyOrders
    order,          \* receiver of ToClickpostShippingLabel
    label,          \* receiver of Validate
    err             \* result of Validate

vars == <<pc, input, orders, chunks, idx, shippingLabels, logged, files,
          openFiles, failure, items, chunkSize, order, label, err>>

---------------------------------------------------------------------------
(* Strings *)

RECURSIVE Rep(_, _)
\* s repeated n times
Rep(s, n) == IF n <= 0 THEN <<>> ELSE s \o Rep(s, n - 1)

EmptyString == <<>>
\* "A"
LatinA == <<65>>
\* U+5C71, three bytes
Yama == <<229, 177, 177>>
\* U+304B followed by the combining voiced sound mark U+3099: one displayed
\* glyph made of two code points (the decomposed form of U+304C)
KaDakuten == <<227, 129, 139, 227, 130, 153>>
CombiningDakuten == <<227, 130, 153>>

\* the literal of ShippingNameTitle
NameTitleLiteral == <<230, 167, 152>>
\* the literal of ShippingContents, six katakana
ContentsLiteral ==
    <<227, 130, 181, 227, 131, 151, 227, 131, 170,
      227, 131, 161, 227, 131, 179, 227, 131, 136>>

\* first[c] of unicode/utf8: the size of the sequence a lead byte starts,
\* 0 for a byte that starts none
LeadSize(c) ==
    IF c >= 194 /\ c <= 223 THEN 2
    ELSE IF c >= 224 /\ c <= 239 THEN 3
    ELSE IF c >= 240 /\ c <= 244 THEN 4
    ELSE 0

\* acceptRanges of unicode/utf8: the range of the second byte
AcceptLo(c) == IF c = 224 THEN 160 ELSE IF c = 240 THEN 144 ELSE 128
AcceptHi(c) == IF c = 237 THEN 159 ELSE IF c = 244 THEN 143 ELSE 191

IsContinuation(c) == c >= 128 /\ c <= 191

\* the number of bytes the rune starting at s[i] takes
RuneSize(s, i) ==
    LET c == s[i]
        size == LeadSize(c)
    IN  IF c < 128 THEN 1
        ELSE IF size = 0 THEN 1
        ELSE IF i - 1 + size > Len(s) THEN 1
        ELSE IF s[i + 1] < AcceptLo(c) \/ AcceptHi(c) < s[i + 1] THEN 1
        ELSE IF size = 2 THEN 2
        ELSE IF ~IsContinuation(s[i + 2]) THEN 1
        ELSE IF size = 3 THEN 3
        ELSE IF ~IsContinuation(s[i + 3]) THEN 1
        ELSE 4

RECURSIVE RuneCountFrom(_, _)
RuneCountFrom(s, i) ==
    IF i > Len(s) THEN 0 ELSE 1 + RuneCountFrom(s, i + RuneSize(s, i))

\* mutant: len(s), the number of bytes
ByteLen(s) == Len(s)

\* utf8.RuneCountInString
RuneCountInString(s) == RuneCountFrom(s, 1)

---------------------------------------------------------------------------
(* ClickpostShippingLabel.Validate *)

LimitName == 20
LimitAddress1 == 20
LimitAddress2 == 20
LimitAddress3 == 20
LimitAddress4 == 20
LimitContents == 15

\* the error values, in the order of the checks
ValidationErrors ==
    <<"zip required", "name required", "name too long",
      "address1 required", "address1 too long",
      "address2 required", "address2 too long",
      "address3 too long", "address4 too long", "contents too long">>

\* mutant: the check of address line 2 is done before the checks of the name
ValidateAddress2First(c) ==
    IF c.ShippingZip = EmptyString THEN "zip required"
    ELSE IF c.ShippingAddress2 = EmptyString THEN "address2 required"
    ELSE IF c.ShippingName = EmptyString THEN "name required"
    ELSE IF RuneCountInString(c.ShippingName) > LimitName THEN "name too long"
    ELSE IF c.ShippingAddress1 = EmptyString THEN "address1 required"
    ELSE IF RuneCountInString(c.ShippingAddress1) > LimitAddress1 THEN "address1 too long"
    ELSE IF RuneCountInString(c.ShippingAddress2) > LimitAddress2 THEN "address2 too long"
    ELSE IF RuneCountInString(c.ShippingAddress3) > LimitAddress3 THEN "address3 too long"
    ELSE IF RuneCountInString(c.ShippingAddress4) > LimitAddress4 THEN "address4 too long"
    ELSE IF RuneCountInString(c.ShippingContents) > LimitContents THEN "contents too long"
    ELSE "nil"

Validate(c) ==
    IF c.ShippingZip = EmptyString THEN "zip required"
    ELSE IF c.ShippingName = EmptyString THEN "name required"
    ELSE IF RuneCountInString(c.ShippingName) > LimitName THEN "name too long"
    ELSE IF c.ShippingAddress1 = EmptyString THEN "address1 required"
    ELSE IF RuneCountInString(c.ShippingAddress1) > LimitAddress1 THEN "address1 too long"
    ELSE IF c.ShippingAddress2 = EmptyString THEN "address2 required"
    ELSE IF RuneCountInString(c.ShippingAddress2) > LimitAddress2 THEN "address2 too long"
    ELSE IF RuneCountInString(c.ShippingAddress3) > LimitAddress3 THEN "address3 too long"
    ELSE IF RuneCountInString(c.ShippingAddress4) > LimitAddress4 THEN "address4 too long"
    ELSE IF RuneCountInString(c.ShippingContents) > LimitContents THEN "contents too long"
    ELSE "nil"

---------------------------------------------------------------------------
(* ShopifyOrder.ToClickpostShippingLabel *)

\* mutant: address line 2 built from the label's own address line 1
ToLabelFromComputedAddress1(s) ==
    [ShippingZip       |-> s.ShippingZip,
     ShippingName      |-> s.ShippingName,
     ShippingNameTitle |-> NameTitleLiteral,
     ShippingAddress1  |-> s.ShippingProvince \o s.ShippingCity,
     ShippingAddress2  |-> s.ShippingStreet \o s.ShippingProvince \o s.ShippingCity,
     ShippingAddress3  |-> s.ShippingAddress2,
     ShippingAddress4  |-> EmptyString,
     ShippingContents  |-> ContentsLiteral]

\* mutant: address line 2 of the order copied to line 4 as well
ToLabelWithAddress4(s) ==
    [ShippingZip       |-> s.ShippingZip,
     ShippingName      |-> s.ShippingName,
     ShippingNameTitle |-> NameTitleLiteral,
     ShippingAddress1  |-> s.ShippingProvince \o s.ShippingCity,
     ShippingAddress2  |-> s.ShippingStreet \o s.ShippingAddress1,
     ShippingAddress3  |-> s.ShippingAddress2,
     ShippingAddress4  |-> s.ShippingAddress2,
     ShippingContents  |-> ContentsLiteral]

\* ShippingAddress4 is not named by the composite literal: its zero value ""
ToClickpostShippingLabel(s) ==
    [ShippingZip       |-> s.ShippingZip,
     ShippingName      |-> s.ShippingName,
     ShippingNameTitle |-> NameTitleLiteral,
     ShippingAddress1  |-> s.ShippingProvince \o s.ShippingCity,
     ShippingAddress2  |-> s.ShippingStreet \o s.ShippingAddress1,
     ShippingAddress3  |-> s.ShippingAddress2,
     ShippingAddress4  |-> EmptyString,
     ShippingContents  |-> ContentsLiteral]

---------------------------------------------------------------------------
(* ChunkShopifyOrders *)

RECURSIVE ChunkLoop(_, _, _)
\* the for loop and the final append
ChunkLoop(its, size, acc) ==
    IF size < Len(its)
    THEN ChunkLoop(SubSeq(its, size + 1, Len(its)), size,
                   Append(acc, SubSeq(its, 1, size)))
    ELSE Append(acc, its)

RECURSIVE ChunkLoopLeq(_, _, _)
\* mutant: the loop condition chunkSize <= len(items)
ChunkLoopLeq(its, size, acc) ==
    IF size <= Len(its)
    THEN ChunkLoopLeq(SubSeq(its, size + 1, Len(its)), size,
                      Append(acc, SubSeq(its, 1, size)))
    ELSE Append(acc, its)

ChunkShopifyOrdersLeq(its, size) == ChunkLoopLeq(its, size, <<>>)

\* mutant: no chunk at all for no item
ChunkShopifyOrdersSkipEmpty(its, size) ==
    IF its = <<>> THEN <<>> ELSE ChunkLoop(its, size, <<>>)

ChunkShopifyOrders(its, size) == ChunkLoop(its, size, <<>>)

---------------------------------------------------------------------------
(* Inputs of the operations taken alone *)

\* field values around a limit: empty, one byte, limit and limit + 1 three-byte
\* code points, and limit glyphs of which the last is two code points
Samples(limit) ==
    {EmptyString, LatinA, Rep(Yama, limit), Rep(Yama, limit + 1),
     Rep(Yama, limit - 1) \o KaDakuten}

OptionalSamples(limit) ==
    {EmptyString, Rep(Yama, limit), Rep(Yama, limit + 1)}

LabelInputs ==
    [ShippingZip       : {EmptyString, <<49>>},
     ShippingName      : Samples(LimitName),
     ShippingNameTitle : {NameTitleLiteral},
     ShippingAddress1  : Samples(LimitAddress1),
     ShippingAddress2  : Samples(LimitAddress2),
     ShippingAddress3  : OptionalSamples(LimitAddress3),
     ShippingAddress4  : OptionalSamples(LimitAddress4),
     ShippingContents  : {ContentsLiteral} \cup OptionalSamples(LimitContents)]

\* "#1001"
OrderName == <<35, 49, 48, 48, 49>>

OrderInputs ==
    [Name             : {OrderName},
     ShippingName     : {EmptyString, LatinA, Rep(Yama, LimitName),
                         Rep(Yama, LimitName + 1)},
     ShippingStreet   : {EmptyString, <<90>>, Rep(Yama, LimitAddress2)},
     ShippingAddress1 : {EmptyString, <<49>>, <<88, 89>>},
     ShippingAddress2 : {EmptyString, <<66>>, Rep(Yama, LimitAddress3 + 1)},
     ShippingCity     : {EmptyString, <<89>>, Rep(Yama, LimitAddress1)},
     ShippingZip      : {EmptyString, <<49>>},
     ShippingProvince : {EmptyString, <<88>>, Yama}]

NoOrder == <<>>
NoLabel == <<>>

\* the variables of main, unused while one operation is taken alone
MainIdle ==
    /\ input = <<>>
    /\ orders = <<>>
    /\ idx = 0
    /\ shippingLabels = <<>>
    /\ logged = <<>>
    /\ files = <<>>
    /\ openFiles = {}
    /\ failure = ""

MainVars == <<input, orders, idx, shippingLabels, logged, files, openFiles, failure>>

ChunkIdle == items = <<>> /\ chunkSize = 0 /\ chunks = <<>>

LabelIdle == order = NoOrder /\ label = NoLabel /\ err = "unset"

---------------------------------------------------------------------------
(* Validate and ToClickpostShippingLabel taken alone *)

CallToClickpostShippingLabel ==
    /\ pc = "transform"
    /\ label' = ToClickpostShippingLabel(order)
    /\ pc' = "validate"
    /\ UNCHANGED <<MainVars, chunks, items, chunkSize, order, err>>

CallValidate ==
    /\ pc = "validate"
    /\ err' = Validate(label)
    /\ pc' = "validated"
    /\ UNCHANGED <<MainVars, chunks, items, chunkSize, order, label>>

InitValidate ==
    /\ pc = "validate"
    /\ order = NoOrder
    /\ label \in LabelInputs
    /\ err = "unset"
    /\ MainIdle
    /\ ChunkIdle

NextValidate == CallValidate

SpecValidate == InitValidate /\ [][NextValidate]_vars

InitTransform ==
    /\ pc = "transform"
    /\ order \in OrderInputs
    /\ label = NoLabel
    /\ err = "unset"
    /\ MainIdle
    /\ ChunkIdle

NextTransform == CallToClickpostShippingLabel \/ CallValidate

SpecTransform == InitTransform /\ [][NextTransform]_vars

---------------------------------------------------------------------------
(* ChunkShopifyOrders taken alone *)

MaxItems == 6
MaxChunkSize == 4

ItemInputs == UNION {[1..n -> 1..2] : n \in 0..MaxItems}

CallChunkShopifyOrders ==
    /\ pc = "chunk_call"
    /\ chunks' = ChunkShopifyOrders(items, chunkSize)
    /\ pc' = "chunked"
    /\ UNCHANGED <<MainVars, items, chunkSize, order, label, err>>

InitChunk ==
    /\ pc = "chunk_call"
    /\ items \in ItemInputs
    /\ chunkSize \in 1..MaxChunkSize
    /\ chunks = <<>>
    /\ MainIdle
    /\ LabelIdle

NextChunk == CallChunkShopifyOrders

SpecChunk == InitChunk /\ [][NextChunk]_vars

---------------------------------------------------------------------------
(* main: ImportShopifyOrders, ChunkShopifyOrders, ExportClickpostShippingLabels *)

maxClickpostShippingLabels == 40

InputFilename == <<"shopify-orders.csv">>

\* fmt.Sprintf("clickpost-shipping-labels-%d.csv", i): mutant numbering from 1
FilenameFromOne(i) == <<"clickpost-shipping-labels-", i + 1, ".csv">>

\* fmt.Sprintf("clickpost-shipping-labels-%d.csv", i)
Filename(i) == <<"clickpost-shipping-labels-", i, ".csv">>

\* the header row MarshalFile writes: the csv tags of ClickpostShippingLabel,
\* named here by their fields
HeaderRow ==
    <<"ShippingZip", "ShippingName", "ShippingNameTitle", "ShippingAddress1",
      "ShippingAddress2", "ShippingAddress3", "ShippingAddress4",
      "ShippingContents">>

\* a file MarshalFile wrote whole, and one whose writing failed part way
\* (some prefix of the bytes, unknown)
WrittenFile(rows) == [complete |-> TRUE, header |-> HeaderRow, rows |-> rows]
PartialFile == [complete |-> FALSE, header |-> <<>>, rows |-> <<>>]

RECURSIVE Digits(_)
\* strconv.Itoa of a natural number
Digits(n) == IF n < 10 THEN <<48 + n>> ELSE Digits(n \div 10) \o <<48 + (n % 10)>>

\* the order identifier of the i-th row: "#1001", "#1002", ...
NameOf(i) == <<35>> \o Digits(1000 + i)

OrderKinds == {"ok", "longname", "nozip"}

\* the i-th row of the input file: a valid order, one whose name is 21
\* full-width characters, one without a postal code
OrderRow(i, kind) ==
    [Name             |-> NameOf(i),
     ShippingName     |-> IF kind = "longname" THEN Rep(Yama, LimitName + 1) ELSE LatinA,
     ShippingStreet   |-> <<90>>,
     ShippingAddress1 |-> <<49>>,
     ShippingAddress2 |-> EmptyString,
     ShippingCity     |-> <<89>>,
     ShippingZip      |-> IF kind = "nozip" THEN EmptyString ELSE <<49>>,
     ShippingProvince |-> <<88>>]

MaxShort == 3
MaxOrders == 81

\* which rows of a long file are rejected
Selections == {"none", "all", "first", "last", "boundary"}

Selected(sel, i, n) ==
    \/ sel = "all"
    \/ sel = "first" /\ i = 1
    \/ sel = "last" /\ i = n
    \/ sel = "boundary" /\ i \in {maxClickpostShippingLabels, maxClickpostShippingLabels + 1}

\* the input files: every short file over the kinds of rows, and the long
\* files of every length with the selected rows rejected
ShortInputs ==
    UNION {{[i \in 1..m |-> OrderRow(i, ks[i])] : ks \in [1..m -> OrderKinds]} :
           m \in 0..MaxShort}

LongInputs ==
    {[i \in 1..n |-> OrderRow(i, IF Selected(sel, i, n) THEN "longname" ELSE "ok")] :
        n \in 0..MaxOrders, sel \in Selections}

\* the loop of ExportClickpostShippingLabels over the orders of a batch:
\* the labels that validated and the lines logged
RECURSIVE ValidateOrders(_, _, _, _)
ValidateOrders(os, k, labels, lines) ==
    IF k > Len(os) THEN [labels |-> labels, lines |-> lines]
    ELSE LET l == ToClickpostShippingLabel(os[k])
             e == Validate(l)
         IN  IF e # "nil"
             THEN ValidateOrders(os, k + 1, labels,
                                 Append(lines, [name |-> os[k].Name, err |-> e]))
             ELSE ValidateOrders(os, k + 1, Append(labels, l), lines)

RECURSIVE ValidateOrdersBreak(_, _, _, _)
\* mutant: break instead of continue after a rejected order
ValidateOrdersBreak(os, k, labels, lines) ==
    IF k > Len(os) THEN [labels |-> labels, lines |-> lines]
    ELSE LET l == ToClickpostShippingLabel(os[k])
             e == Validate(l)
         IN  IF e # "nil"
             THEN [labels |-> labels,
                   lines |-> Append(lines, [name |-> os[k].Name, err |-> e])]
             ELSE ValidateOrdersBreak(os, k + 1, Append(labels, l), lines)

ExportLoopBreak(os) == ValidateOrdersBreak(os, 1, <<>>, <<>>)

ExportLoop(os) == ValidateOrders(os, 1, <<>>, <<>>)

\* mutant: the deferred Close is missing
OutFileLeft(h) == openFiles

\* defer outFile.Close()
OutFileClose(h) == openFiles \ {h}

\* defer inFile.Close()
InFileClose(h) == openFiles \ {h}

\* mutant: main goes on with the next batch whatever Export returned
MainIgnoresError(e) == IF idx + 1 < Len(chunks) THEN "export" ELSE "done"

\* main after ExportClickpostShippingLabels returned e: panic(err), or the
\* next round of the range loop
MainAfterExport(e) ==
    IF e # "" THEN "aborted"
    ELSE IF idx + 1 < Len(chunks) THEN "export" ELSE "done"

\* os.Open fails, or succeeds and the handle is held
ImportOpen ==
    /\ pc = "import_open"
    /\ \E e \in {"", "open"} :
          IF e # ""
          THEN /\ failure' = e
               /\ pc' = "aborted"
               /\ UNCHANGED openFiles
          ELSE /\ openFiles' = openFiles \cup {InputFilename}
               /\ pc' = "import_unmarshal"
               /\ UNCHANGED failure
    /\ UNCHANGED <<input, orders, chunks, idx, shippingLabels, logged, files,
                   items, chunkSize, order, label, err>>

\* gocsv.UnmarshalFile fails (a missing column, a malformed row) or yields the
\* rows; the deferred Close runs on both returns
ImportUnmarshal ==
    /\ pc = "import_unmarshal"
    /\ \E e \in {"", "parse"} :
          IF e # ""
          THEN /\ failure' = e
               /\ pc' = "aborted"
               /\ UNCHANGED orders
          ELSE /\ orders' = input
               /\ pc' = "chunk"
               /\ UNCHANGED failure
    /\ openFiles' = InFileClose(InputFilename)
    /\ UNCHANGED <<input, chunks, idx, shippingLabels, logged, files,
                   items, chunkSize, order, label, err>>

\* ChunkShopifyOrders(orders, maxClickpostShippingLabels), and the range loop
\* over its chunks entered (it has no round when there is no chunk)
MainChunk ==
    /\ pc = "chunk"
    /\ chunks' = ChunkShopifyOrders(orders, maxClickpostShippingLabels)
    /\ idx' = 0
    /\ pc' = IF Len(chunks') > 0 THEN "export" ELSE "done"
    /\ UNCHANGED <<input, orders, shippingLabels, logged, files, openFiles,
                   failure, items, chunkSize, order, label, err>>

\* ExportClickpostShippingLabels(Filename(idx), chunks[idx]): the loop over
\* the orders
ExportValidate ==
    /\ pc = "export"
    /\ LET r == ExportLoop(chunks[idx + 1])
       IN  /\ shippingLabels' = r.labels
           /\ logged' = logged \o r.lines
    /\ pc' = "export_create"
    /\ UNCHANGED <<input, orders, chunks, idx, files, openFiles, failure,
                   items, chunkSize, order, label, err>>

\* os.Create fails, or truncates or creates the file and the handle is held
ExportCreate ==
    /\ pc = "export_create"
    /\ \E e \in {"", "create"} :
          IF e # ""
          THEN /\ failure' = e
               /\ pc' = MainAfterExport(e)
               /\ idx' = IF pc' = "aborted" THEN idx ELSE idx + 1
               /\ UNCHANGED <<files, openFiles>>
          ELSE /\ files' = [n \in DOMAIN files \cup {Filename(idx)} |->
                               IF n = Filename(idx) THEN PartialFile ELSE files[n]]
               /\ openFiles' = openFiles \cup {Filename(idx)}
               /\ pc' = "export_marshal"
               /\ UNCHANGED <<failure, idx>>
    /\ UNCHANGED <<input, orders, chunks, shippingLabels, logged,
                   items, chunkSize, order, label, err>>

\* gocsv.MarshalFile writes the header row and the labels, or fails; the
\* deferred Close runs on both returns, and main goes on
ExportMarshal ==
    /\ pc = "export_marshal"
    /\ \E e \in {"", "write"} :
          /\ IF e # ""
             THEN failure' = e /\ UNCHANGED files
             ELSE /\ files' = [files EXCEPT ![Filename(idx)] = WrittenFile(shippingLabels)]
                  /\ UNCHANGED failure
          /\ pc' = MainAfterExport(e)
          /\ idx' = IF pc' = "aborted" THEN idx ELSE idx + 1
    /\ openFiles' = OutFileClose(Filename(idx))
    /\ UNCHANGED <<input, orders, chunks, shippingLabels, logged,
                   items, chunkSize, order, label, err>>

Init ==
    /\ pc = "import_open"
    /\ input \in ShortInputs \cup LongInputs
    /\ orders = <<>>
    /\ chunks = <<>>
    /\ idx = 0
    /\ shippingLabels = <<>>
    /\ logged = <<>>
    /\ files = <<>>
    /\ openFiles = {}
    /\ failure = ""
    /\ items = <<>>
    /\ chunkSize = 0
    /\ LabelIdle

Next ==
    \/ ImportOpen
    \/ ImportUnmarshal
    \/ MainChunk
    \/ ExportValidate
    \/ ExportCreate
    \/ ExportMarshal

Spec == Init /\ [][Next]_vars

---------------------------------------------------------------------------
(* Measures of a well-formed UTF-8 string used to state the properties *)

\* the number of Unicode code points: the bytes that continue no sequence
CodePoints(s) == Cardinality({i \in 1..Len(s) : ~IsContinuation(s[i])})

\* the number of combining marks, which display with the code point before
CombiningMarks(s) ==
    Cardinality({i \in 1..(Len(s) - 2) : SubSeq(s, i, i + 2) = CombiningDakuten})

\* the number of displayed glyphs
GlyphCount(s) == CodePoints(s) - CombiningMarks(s)

---------------------------------------------------------------------------
(* Properties of ToClickpostShippingLabel (checked under SpecTransform) *)

Transformed == pc \in {"validate", "validated"} /\ order # NoOrder

C10_FixedFields ==
    Transformed =>
        /\ label.ShippingAddress4 = EmptyString
        /\ label.ShippingNameTitle = NameTitleLiteral
        /\ label.ShippingContents = ContentsLiteral
        /\ GlyphCount(label.ShippingContents) <= LimitContents
        /\ CodePoints(label.ShippingContents) <= LimitContents
        /\ pc = "validated" =>
               /\ err \notin {"address4 too long", "contents too long"}
               /\ err \in {"nil"} \cup {ValidationErrors[k] : k \in 1..8}

\* a produced label rejected by the last rule that can reject one
C10_Witness ==
    /\ Transformed
    /\ pc = "validated"
    /\ err = "address3 too long"
    /\ label.ShippingAddress4 = EmptyString

---------------------------------------------------------------------------
(* Properties of Validate (checked under SpecValidate) *)

Validated == pc = "validated" /\ order = NoOrder

\* the rules a label breaks, by their place in the order of the checks,
\* with lengths measured by count
Violated(c, count(_)) ==
    {k \in 1..10 :
        \/ k = 1 /\ c.ShippingZip = EmptyString
        \/ k = 2 /\ c.ShippingName = EmptyString
        \/ k = 3 /\ count(c.ShippingName) > LimitName
        \/ k = 4 /\ c.ShippingAddress1 = EmptyString
        \/ k = 5 /\ count(c.ShippingAddress1) > LimitAddress1
        \/ k = 6 /\ c.ShippingAddress2 = EmptyString
        \/ k = 7 /\ count(c.ShippingAddress2) > LimitAddress2
        \/ k = 8 /\ count(c.ShippingAddress3) > LimitAddress3
        \/ k = 9 /\ count(c.ShippingAddress4) > LimitAddress4
        \/ k = 10 /\ count(c.ShippingContents) > LimitContents}

Least(S) == CHOOSE k \in S : \A j \in S : k <= j

\* C3 (as stated): Validate accepts a label exactly when it breaks no rule,
\* the lengths being counted in displayed glyphs.
C3_AsStated ==
    Validated => (err = "nil" <=> Violated(label, GlyphCount) = {})

\* C3 (amended): Validate accepts a label exactly when it breaks no rule, the
\* lengths being counted in Unicode code points (not bytes, and not displayed
\* glyphs: a glyph made of a base and a combining mark counts as two); 20
\* three-byte code points are accepted as a name and 21 are rejected.
C3_AcceptIff ==
    Validated =>
        /\ err = "nil" <=> Violated(label, CodePoints) = {}
        /\ err = "nil" <=>
               /\ label.ShippingZip # EmptyString
               /\ label.ShippingName # EmptyString
               /\ CodePoints(label.ShippingName) <= LimitName
               /\ label.ShippingAddress1 # EmptyString
               /\ CodePoints(label.ShippingAddress1) <= LimitAddress1
               /\ label.ShippingAddress2 # EmptyString
               /\ CodePoints(label.ShippingAddress2) <= LimitAddress2
               /\ CodePoints(label.ShippingAddress3) <= LimitAddress3
               /\ CodePoints(label.ShippingAddress4) <= LimitAddress4
               /\ CodePoints(label.ShippingContents) <= LimitContents

\* a name of 20 three-byte code points (60 bytes) is accepted, with address
\* lines 3 and 4 empty
C3_Witness ==
    /\ Validated
    /\ err = "nil"
    /\ label.ShippingName = Rep(Yama, LimitName)
    /\ Len(label.ShippingName) = 3 * LimitName
    /\ label.ShippingAddress3 = EmptyString
    /\ label.ShippingAddress4 = EmptyString

\* C4: Validate answers one error, that of the first rule broken in the
\* order of the checks (nil when none is broken); a label with an empty name
\* is rejected whatever its address lines and contents.
C4_FirstViolated ==
    Validated =>
        /\ err \in {"nil"} \cup {ValidationErrors[k] : k \in 1..10}
        /\ err = IF Violated(label, CodePoints) = {} THEN "nil"
                 ELSE ValidationErrors[Least(Violated(label, CodePoints))]
        /\ label.ShippingName = EmptyString => err \in {"zip required", "name required"}

\* a label breaking the rules of the name, of address line 2 and of the
\* contents at once is answered with the rule of the name
C4_Witness ==
    /\ Validated
    /\ {2, 6, 10} \subseteq Violated(label, CodePoints)
    /\ 1 \notin Violated(label, CodePoints)
    /\ err = "name required"

---------------------------------------------------------------------------
(* Properties of ChunkShopifyOrders (checked under SpecChunk) *)

CeilDiv(n, d) == (n + d - 1) \div d

RECURSIVE Flatten(_)
Flatten(ss) == IF ss = <<>> THEN <<>> ELSE Head(ss) \o Flatten(Tail(ss))

\* C2: for a chunk size N >= 1 and L > 0 items, ChunkShopifyOrders returns
\* ceil(L/N) chunks, all of N items but the last, which holds between 1 and
\* N items, and the chunks put end to end are the items.
C2_Chunks ==
    (pc = "chunked" /\ Len(items) > 0) =>
        /\ Len(chunks) = CeilDiv(Len(items), chunkSize)
        /\ \A k \in 1..(Len(chunks) - 1) : Len(chunks[k]) = chunkSize
        /\ Len(chunks[Len(chunks)]) >= 1
        /\ Len(chunks[Len(chunks)]) <= chunkSize
        /\ Flatten(chunks) = items

\* four items in chunks of two: two full chunks and no empty one after them
C2_Witness ==
    /\ pc = "chunked"
    /\ Len(items) = 4
    /\ chunkSize = 2
    /\ Len(chunks) = 2
    /\ Len(chunks[2]) = 2
    /\ items[1] # items[2]

---------------------------------------------------------------------------
(* Properties of main (checked under Spec) *)

Min(a, b) == IF a < b THEN a ELSE b

\* the name of the file with suffix j, written out
NamedWithSuffix(j) == <<"clickpost-shipping-labels-", j, ".csv">>

\* the orders of batch j (from 0), by their place in the orders imported
OrdersOfBatch(j) ==
    SubSeq(orders, maxClickpostShippingLabels * j + 1,
           Min(maxClickpostShippingLabels * (j + 1), Len(orders)))

Accepted(o) == Validate(ToClickpostShippingLabel(o)) = "nil"
Rejected(o) == Validate(ToClickpostShippingLabel(o)) # "nil"

\* the rows and the diagnostic lines a batch must give, in the order of the
\* input
RowsOf(batch) ==
    LET kept == SelectSeq(batch, Accepted)
    IN  [k \in 1..Len(kept) |-> ToClickpostShippingLabel(kept[k])]

LinesOf(batch) ==
    LET dropped == SelectSeq(batch, Rejected)
    IN  [k \in 1..Len(dropped) |->
            [name |-> dropped[k].Name,
             err |-> Validate(ToClickpostShippingLabel(dropped[k]))]]

RECURSIVE LinesUpTo(_)
\* the lines of batches 0 .. j - 1
LinesUpTo(j) == IF j <= 0 THEN <<>> ELSE LinesUpTo(j - 1) \o LinesOf(OrdersOfBatch(j - 1))

InExport ==
    \/ pc \in {"export_create", "export_marshal"}
    \/ pc = "aborted" /\ failure \in {"create", "write"}

\* the number of batches whose orders have been validated
Validated_Batches == IF InExport THEN idx + 1 ELSE idx

\* C5: a rejected order of a batch gives one logged line with its identifier
\* and the reason and no row; every other order gives one row; rows and lines
\* keep the order of the input; rows plus lines are the batch.
C5_BatchRowsAndLines ==
    /\ logged = LinesUpTo(Validated_Batches)
    /\ pc \in {"export_create", "export_marshal"} =>
          /\ shippingLabels = RowsOf(OrdersOfBatch(idx))
          /\ Len(shippingLabels) + Len(logged) - Len(LinesUpTo(idx))
                 = Len(OrdersOfBatch(idx))
    /\ \A j \in 0..(idx - 1) :
          (NamedWithSuffix(j) \in DOMAIN files /\ files[NamedWithSuffix(j)].complete) =>
              /\ files[NamedWithSuffix(j)].rows = RowsOf(OrdersOfBatch(j))
              /\ Len(files[NamedWithSuffix(j)].rows) + Len(LinesOf(OrdersOfBatch(j)))
                     = Len(OrdersOfBatch(j))

\* three orders of which the second has a name of 21 full-width characters:
\* one line naming "#1002", and the first and third orders as the rows
C5_Witness ==
    /\ pc = "done"
    /\ Len(orders) = 3
    /\ logged = <<[name |-> NameOf(2), err |-> "name too long"]>>
    /\ Len(orders[2].ShippingName) = 3 * (LimitName + 1)
    /\ files[NamedWithSuffix(0)].rows =
           <<ToClickpostShippingLabel(orders[1]), ToClickpostShippingLabel(orders[3])>>

\* C6: a run that ends well over L > 0 orders leaves ceil(L/40) files, with
\* the suffixes 0, 1, ... and no gap, each of at most 40 rows; when every
\* order validates, file j holds the labels of orders 40j+1 .. 40j+40.
C6_FilesPerBatch ==
    (pc = "done" /\ Len(orders) > 0) =>
        /\ DOMAIN files =
               {NamedWithSuffix(j) :
                    j \in 0..(CeilDiv(Len(orders), maxClickpostShippingLabels) - 1)}
        /\ \A j \in 0..(CeilDiv(Len(orders), maxClickpostShippingLabels) - 1) :
              /\ files[NamedWithSuffix(j)].complete
              /\ Len(files[NamedWithSuffix(j)].rows) <= maxClickpostShippingLabels
              /\ logged = <<>> =>
                     files[NamedWithSuffix(j)].rows =
                         [k \in 1..Len(OrdersOfBatch(j)) |->
                             ToClickpostShippingLabel(OrdersOfBatch(j)[k])]

\* 45 orders that all validate: two files, of 40 and of 5 rows
C6_Witness ==
    /\ pc = "done"
    /\ Len(orders) = 45
    /\ logged = <<>>
    /\ DOMAIN files = {NamedWithSuffix(0), NamedWithSuffix(1)}
    /\ Len(files[NamedWithSuffix(0)].rows) = 40
    /\ Len(files[NamedWithSuffix(1)].rows) = 5
    /\ files[NamedWithSuffix(1)].rows[5].ShippingName = orders[45].ShippingName

Chunked == pc \in {"export", "export_create", "export_marshal", "done"}
               \/ (pc = "aborted" /\ failure \in {"create", "write"})

\* C7: with no order imported ChunkShopifyOrders gives one chunk of no order,
\* and a run that ends well leaves the one file of suffix 0 holding the header
\* row alone; an export that returned no error for a batch without a valid
\* label left its file with the header row and no label row.
C7_EmptyBatch ==
    /\ (Chunked /\ orders = <<>>) => chunks = << <<>> >>
    /\ (pc = "done" /\ orders = <<>>) =>
          /\ DOMAIN files = {NamedWithSuffix(0)}
          /\ files[NamedWithSuffix(0)] =
                 [complete |-> TRUE, header |-> HeaderRow, rows |-> <<>>]
    /\ \A j \in 0..(idx - 1) :
          (Chunked /\ failure = ""
             /\ \A k \in 1..Len(OrdersOfBatch(j)) : Rejected(OrdersOfBatch(j)[k])) =>
              /\ NamedWithSuffix(j) \in DOMAIN files
              /\ files[NamedWithSuffix(j)].complete
              /\ files[NamedWithSuffix(j)].header = HeaderRow
              /\ Len(HeaderRow) = 8
              /\ files[NamedWithSuffix(j)].rows = <<>>

\* the run over an input file without rows has ended well
C7_Witness ==
    /\ pc = "done"
    /\ input = <<>>
    /\ orders = <<>>
    /\ Len(chunks) = 1
    /\ failure = ""
    /\ files[NamedWithSuffix(0)].rows = <<>>

\* what a failure leaves behind: the run is aborted; after a failed import
\* nothing was chunked, logged or created; after a failed export of batch i
\* nothing of a later batch was logged or created
C8_AfterFailure ==
    failure # "" =>
        /\ pc = "aborted"
        /\ failure \in {"open", "parse"} =>
               /\ files = <<>>
               /\ logged = <<>>
               /\ chunks = <<>>
        /\ failure \in {"create", "write"} =>
               /\ logged = LinesUpTo(idx + 1)
               /\ \A j \in (idx + 1)..(Len(chunks) - 1) :
                      NamedWithSuffix(j) \notin DOMAIN files
               /\ failure = "create" => NamedWithSuffix(idx) \notin DOMAIN files
               /\ failure = "write" => ~files[NamedWithSuffix(idx)].complete

\* C8: an I/O or parse failure aborts the run at once: a failed import leaves
\* no output file, a failed export of batch i leaves no later batch validated,
\* logged or exported, and nothing happens after the failure (no retry).
C8_AbortOnFailure ==
    /\ []C8_AfterFailure
    /\ [][failure # "" => UNCHANGED vars]_vars

\* the first of three batches could not be created: the run is aborted with
\* the two other batches untouched
C8_Witness ==
    /\ pc = "aborted"
    /\ failure = "create"
    /\ idx = 0
    /\ Len(chunks) = 3
    /\ files = <<>>
    /\ Len(logged) = Len(LinesOf(OrdersOfBatch(0)))

\* C9: a handle is held only inside the operation that opened it, between its
\* open and its return: none when the open or the create failed, none after
\* a return (with or without an error), none between operations, and never
\* two at once.
C9_HandlesReleased ==
    /\ Cardinality(openFiles) <= 1
    /\ pc = "import_unmarshal" => openFiles = {InputFilename}
    /\ pc = "export_marshal" => openFiles = {NamedWithSuffix(idx)}
    /\ pc \in {"import_open", "chunk", "export", "export_create", "done", "aborted"}
           => openFiles = {}

\* the write of the second batch failed, after the first was written: no
\* handle is left
C9_Witness ==
    /\ pc = "aborted"
    /\ failure = "write"
    /\ idx = 1
    /\ files[NamedWithSuffix(0)].complete
    /\ openFiles = {}

====
